---- MODULE Spec2Model ----
(***************************************************************************)
(* Gemini's MIDI SysEx command set (factory/libgemini/gemini.py): the      *)
(* device handle, its operations, the payload encodings and the monitor   *)
(* decode with its failure path.                                           *)
(*                                                                         *)
(* Python values are tagged records [t, v] with v always a sequence of     *)
(* integers: None is [t |-> "none", v |-> <<>>], an int n is               *)
(* [t |-> "int", v |-> <<n>>], a str or bytes value carries its bytes, a   *)
(* non-integral mean carries <<numerator, denominator>> in lowest terms.   *)
(***************************************************************************)
EXTENDS Integers, Sequences, FiniteSets, TLC

\* version, serial_number: the handle's fields
\* pc, op, args:           the caller's position and the call it made last
\* wire:                   the frames that call sent ("tx") and received ("rx")
\* caught:                 the exception monitor()'s except clause bound to e
\* outcome:                what that call returned or raised
\* hist:                   what the caller last got from each of the two queries
VARIABLES version, serial_number, pc, op, args, wire, caught, outcome, hist

vars == <<version, serial_number, pc, op, args, wire, caught, outcome, hist>>

(***************************************************************************)
(* Bounds of the model.                                                    *)
(***************************************************************************)
\* largest `samples` argument given to read_adc_average
MaxSamples == 4
\* the float arguments val have binary exponents -MinValExp .. MaxValExp
MaxValExp == 5
MinValExp == 20

(***************************************************************************)
(* Program constants.                                                      *)
(***************************************************************************)
HELLO == 1
WRITE_ADC_GAIN == 2
WRITE_ADC_OFFSET == 3
READ_ADC == 4
SET_DAC == 5
RESET_SETTINGS == 7
WRITE_LUT_ENTRY == 10
WRITE_LUT == 11
ERASE_LUT == 12
DISABLE_ADC_CORR == 13
ENABLE_ADC_CORR == 14
GET_SERIAL_NUMBER == 15
MONITOR == 16
SOFT_RESET == 17
ENTER_CALIBRATION == 18
RESET_INTO_BOOTLOADER == 19
READ_SETTINGS == 24
WRITE_SETTINGS == 25
SET_FREQ == 32
SYSEX_MARKER == 119
\* Gemini.ADC: DUTY_A = 0 .. CV_B = 8
ADC_CV_B == 8
\* MIDI System Exclusive start and end status bytes (0xF0, 0xF7)
SYSEX_START == 240
SYSEX_END == 247
\* significand width of a Python float (IEEE 754 binary64)
SigBits == 53

(***************************************************************************)
(* Python values and outcomes.                                             *)
(***************************************************************************)
None == [t |-> "none", v |-> <<>>]
PyInt(n) == [t |-> "int", v |-> <<n>>]
PyBytes(b) == [t |-> "bytes", v |-> b]
PyStr(b) == [t |-> "str", v |-> b]

Returns(val) == [kind |-> "return", val |-> val, err |-> ""]
Raises(e) == [kind |-> "raise", val |-> None, err |-> e]
Pending == [kind |-> "pending", val |-> None, err |-> ""]

Ok(val) == [ok |-> TRUE, val |-> val, err |-> ""]
Fail(e) == [ok |-> FALSE, val |-> <<>>, err |-> e]

(***************************************************************************)
(* struct.pack / struct.unpack, big-endian ('>').                          *)
(***************************************************************************)
\* the low `n` bytes of integer x, most significant first (two's complement
\* for a negative x: \div rounds down and % is non-negative)
RECURSIVE BigEndian(_, _)
BigEndian(x, n) ==
    IF n = 0 THEN <<>> ELSE Append(BigEndian(x \div 256, n - 1), x % 256)

\* the unsigned integer held by a big-endian byte sequence
RECURSIVE FromBigEndian(_)
FromBigEndian(b) ==
    IF Len(b) = 0 THEN 0
    ELSE FromBigEndian(SubSeq(b, 1, Len(b) - 1)) * 256 + b[Len(b)]

\* one field of a format string: 'B', 'H', 'h', 'I'; struct.error when the
\* number is outside the format's range ('I' ends at 2^32 - 1, above every
\* number the arguments below produce)
PackField(fmt, x) ==
    CASE fmt = "B" -> IF x >= 0 /\ x <= 255 THEN Ok(BigEndian(x, 1)) ELSE Fail("struct.error")
      [] fmt = "H" -> IF x >= 0 /\ x <= 65535 THEN Ok(BigEndian(x, 2)) ELSE Fail("struct.error")
      [] fmt = "h" -> IF x >= -32768 /\ x <= 32767 THEN Ok(BigEndian(x, 2)) ELSE Fail("struct.error")
      [] fmt = "I" -> IF x >= 0 THEN Ok(BigEndian(x, 4)) ELSE Fail("struct.error")

\* struct.pack(">" + fmts, *xs)
RECURSIVE StructPack(_, _)
StructPack(fmts, xs) ==
    IF Len(fmts) = 0 THEN Ok(<<>>)
    ELSE LET head == PackField(fmts[1], xs[1])
             rest == StructPack(Tail(fmts), Tail(xs))
         IN  IF ~head.ok THEN head
             ELSE IF ~rest.ok THEN rest
             ELSE Ok(head.val \o rest.val)

\* struct.unpack(">H", buf): exactly two bytes, else struct.error
UnpackH(buf) ==
    IF Len(buf) = 2 THEN Ok(<<FromBigEndian(buf)>>) ELSE Fail("struct.error")

(***************************************************************************)
(* The "teeth" payload escaping of the transport: every group of up to     *)
(* four bytes becomes five 7-bit bytes, a header carrying the group's      *)
(* length and the four high bits, then the low seven bits of each byte.    *)
(***************************************************************************)
Hi(b) == b \div 128
Lo7(b) == b % 128
Pad4(g) == g \o SubSeq(<<0, 0, 0>>, 1, 4 - Len(g))

TeethGroup(g) ==
    LET p == Pad4(g)
    IN  << Len(g) * 16 + Hi(p[1]) * 8 + Hi(p[2]) * 4 + Hi(p[3]) * 2 + Hi(p[4]),
           Lo7(p[1]), Lo7(p[2]), Lo7(p[3]), Lo7(p[4]) >>

RECURSIVE teeth_encode(_)
teeth_encode(src) ==
    IF Len(src) = 0 THEN <<>>
    ELSE IF Len(src) <= 4 THEN TeethGroup(src)
    ELSE TeethGroup(SubSeq(src, 1, 4)) \o teeth_encode(SubSeq(src, 5, Len(src)))

UnteethGroup(g) ==
    LET h == g[1]
        n == h \div 16
        b == << ((h \div 8) % 2) * 128 + g[2], ((h \div 4) % 2) * 128 + g[3],
                ((h \div 2) % 2) * 128 + g[4], (h % 2) * 128 + g[5] >>
    IN  SubSeq(b, 1, n)

WellFormedGroup(g) ==
    /\ g[1] \div 16 \in 1 .. 4
    /\ \A i \in 1 .. 5 : g[i] < 128

\* fails on input that teeth_encode cannot have produced
RECURSIVE teeth_decode(_)
teeth_decode(src) ==
    IF Len(src) = 0 THEN Ok(<<>>)
    ELSE IF Len(src) < 5 \/ ~WellFormedGroup(SubSeq(src, 1, 5)) THEN Fail("teeth.error")
    ELSE LET rest == teeth_decode(SubSeq(src, 6, Len(src)))
         IN  IF ~rest.ok THEN rest
             ELSE Ok(UnteethGroup(SubSeq(src, 1, 5)) \o rest.val)

\* Python's result[3:-1]
Slice3To1(s) == SubSeq(s, 4, Len(s) - 1)

\* bytearray(b).decode("ascii")
DecodeAscii(b) ==
    IF \A i \in 1 .. Len(b) : b[i] < 128 THEN Ok(b) ELSE Fail("UnicodeDecodeError")

\* bytes.hex(): two lowercase hex digits per byte, here as digit values 0..15
RECURSIVE Hex(_)
Hex(b) ==
    IF Len(b) = 0 THEN <<>> ELSE <<b[1] \div 16, b[1] % 16>> \o Hex(Tail(b))

(***************************************************************************)
(* Python floats (IEEE 754 binary64, round to nearest, ties to even).      *)
(* A finite float is [neg, exp, sig]: sig is its SigBits-bit significand,  *)
(* most significant bit first, sig[i] weighing 2^(exp - i + 1); zero has   *)
(* an all-zero significand.                                                *)
(***************************************************************************)
RECURSIVE TwoTo(_)
TwoTo(n) == IF n = 0 THEN 1 ELSE 2 * TwoTo(n - 1)

Max(a, b) == IF a >= b THEN a ELSE b
Min(a, b) == IF a <= b THEN a ELSE b

IsZero(x) == \A i \in 1 .. SigBits : x.sig[i] = 0

\* the bit of |x| that weighs 2^p
XBit(x, p) ==
    IF p <= x.exp /\ p > x.exp - SigBits THEN x.sig[x.exp - p + 1] ELSE 0

\* val >= 0 (true of -0.0)
GeZero(x) == ~x.neg \/ IsZero(x)

\* val * 65536.0: a power of two scales the exponent, exactly
Times65536(x) == IF IsZero(x) THEN x ELSE [x EXCEPT !.exp = @ + 16]

\* the bit string w plus one unit of its bit h: the carry reaches bit i
\* when every bit from i + 1 to h is set
AddOneAt(w, h) ==
    [i \in 1 .. Len(w) |->
        IF i > h THEN w[i]
        ELSE IF \A k \in i + 1 .. h : w[k] = 1 THEN 1 - w[i] ELSE w[i]]

\* the weight 2^p of the first bit of the exact sum |x| + 0.5
SumTop(x) == Max(x.exp, -1) + 1
SumLow(x) == Min(x.exp - (SigBits - 1), -1)

\* the exact binary expansion of |x| + 0.5, from weight SumTop down to SumLow
ExactPlusHalf(x) ==
    LET n == SumTop(x) - SumLow(x) + 1
        xbits == [i \in 1 .. n |-> XBit(x, SumTop(x) - i + 1)]
    IN  AddOneAt(xbits, SumTop(x) + 2)

BitAt(w, i) == IF i >= 1 /\ i <= Len(w) THEN w[i] ELSE 0

\* a bit string whose first bit weighs 2^top, rounded to SigBits significant
\* bits, to nearest, ties to even
RoundNearestEven(w, top) ==
    LET f == CHOOSE i \in 1 .. Len(w) : w[i] = 1 /\ \A j \in 1 .. i - 1 : w[j] = 0
        kept == [i \in 1 .. SigBits |-> BitAt(w, f + i - 1)]
        guard == BitAt(w, f + SigBits)
        sticky == \E i \in f + SigBits + 1 .. Len(w) : w[i] = 1
        up == guard = 1 /\ (sticky \/ kept[SigBits] = 1)
        carried == \A i \in 1 .. SigBits : kept[i] = 1
    IN  IF ~up THEN [neg |-> FALSE, exp |-> top - f + 1, sig |-> kept]
        ELSE IF carried
             THEN [neg |-> FALSE, exp |-> top - f + 2,
                   sig |-> [i \in 1 .. SigBits |-> IF i = 1 THEN 1 ELSE 0]]
             ELSE [neg |-> FALSE, exp |-> top - f + 1,
                   sig |-> AddOneAt(kept, SigBits)]

\* x + 0.5 for x >= 0 and x - 0.5 for x < 0, as the float the addition yields
AwayHalf(x, neg) == [RoundNearestEven(ExactPlusHalf(x), SumTop(x)) EXCEPT !.neg = neg]

\* the integer part of |x|
RECURSIVE IntPart(_, _)
IntPart(x, p) ==
    IF p < 0 THEN 0 ELSE XBit(x, p) * TwoTo(p) + IntPart(x, p - 1)

\* int(x): truncation toward zero
PyIntOfFloat(x) ==
    IF IsZero(x) THEN 0
    ELSE IF x.neg THEN 0 - IntPart(x, x.exp) ELSE IntPart(x, x.exp)

\* _encode_fix16(val)
encode_fix16(val) ==
    IF GeZero(val)
    THEN PyIntOfFloat(AwayHalf(Times65536(val), FALSE))
    ELSE PyIntOfFloat(AwayHalf(Times65536(val), TRUE))

\* int(val * 2048): exact scaling, then truncation toward zero
TimesGain(x) == IF IsZero(x) THEN x ELSE [x EXCEPT !.exp = @ + 11]

(***************************************************************************)
(* The float arguments the calls are tried on.                             *)
(***************************************************************************)
SigOf(ones) == [i \in 1 .. SigBits |-> IF i \in ones THEN 1 ELSE 0]

Significands ==
    { SigOf({1}), SigOf({1, 2}), SigOf({1, 3}), SigOf({1, 2, 3}),
      SigOf({1, SigBits}), SigOf(1 .. SigBits - 1), SigOf(1 .. SigBits) }

FloatArgs ==
    { [neg |-> n, exp |-> e, sig |-> g] :
        n \in BOOLEAN, e \in (0 - MinValExp) .. MaxValExp, g \in Significands }
    \cup { [neg |-> n, exp |-> 0, sig |-> SigOf({})] : n \in BOOLEAN }

\* the float 1.0
One == [neg |-> FALSE, exp |-> 0, sig |-> SigOf({1})]

(***************************************************************************)
(* The MIDI transport (wintertools.midi.MIDIDevice): sysex() sends one     *)
(* frame and, when a response is asked for, blocks for one frame.  What    *)
(* the port and the device do is the environment's choice `env`:           *)
(* env.sent (the port accepted the frame), env.arrives (a frame came       *)
(* before the timeout), env.frame (that frame).                            *)
(***************************************************************************)
Tx(frame) == [dir |-> "tx", frame |-> frame]
Rx(frame) == [dir |-> "rx", frame |-> frame]

Frame(marker, command, payload) ==
    <<SYSEX_START, marker, command>> \o payload \o <<SYSEX_END>>

\* wait_for_message()
wait_for_message(env) ==
    IF env.arrives
    THEN [wire |-> <<Rx(env.frame)>>, res |-> Ok(env.frame)]
    ELSE [wire |-> <<>>, res |-> Fail("NoResponseError")]

\* sysex(command, data, response, encode, decode)
sysex(command, data, response, encode, decode, env) ==
    LET body == IF encode THEN teeth_encode(data) ELSE data
        sent == <<Tx(Frame(SYSEX_MARKER, command, body))>>
        got == wait_for_message(env)
    IN  IF ~env.sent THEN [wire |-> <<>>, res |-> Fail("SendError")]
        ELSE IF ~response THEN [wire |-> sent, res |-> Ok(<<>>)]
        ELSE IF ~got.res.ok THEN [wire |-> sent, res |-> got.res]
        ELSE [wire |-> sent \o got.wire,
              res |-> IF decode THEN teeth_decode(Slice3To1(got.res.val)) ELSE got.res]

\* the environment of a command that waits for no response
SendEnvs == { [sent |-> b, arrives |-> FALSE, frame |-> <<>>] : b \in BOOLEAN }

\* the environment of a command that waits for one
Envs(replies) ==
    SendEnvs \cup { [sent |-> TRUE, arrives |-> TRUE, frame |-> f] : f \in replies }

\* the environment of a bare wait_for_message()
RxEnvs(frames) ==
    { [sent |-> TRUE, arrives |-> FALSE, frame |-> <<>>] }
    \cup { [sent |-> TRUE, arrives |-> TRUE, frame |-> f] : f \in frames }

(***************************************************************************)
(* What the device (or anything else on the bus) may answer.               *)
(***************************************************************************)
Markers == {SYSEX_MARKER, SYSEX_MARKER - 1}
\* a payload teeth_decode rejects
BadTeeth == <<200>>

HelloReplies ==
    { Frame(m, HELLO, text) : m \in Markers, text \in {<<97>>, <<98>>} }
    \cup { Frame(SYSEX_MARKER, HELLO, <<200>>), <<SYSEX_START, SYSEX_END>> }

SerialReplies ==
    { Frame(SYSEX_MARKER, GET_SERIAL_NUMBER, teeth_encode(b)) : b \in {<<1, 171>>, <<2, 205>>} }
    \cup { Frame(SYSEX_MARKER, GET_SERIAL_NUMBER, BadTeeth) }

Readings == {10, 20, 30, 40}

AdcReply(reading) == Frame(SYSEX_MARKER, READ_ADC, teeth_encode(BigEndian(reading, 2)))

GoodAdcEnvs == { [sent |-> TRUE, arrives |-> TRUE, frame |-> AdcReply(r)] : r \in Readings }

BadAdcEnvs ==
    SendEnvs \cup { [sent |-> TRUE, arrives |-> TRUE, frame |-> f] :
                      f \in { Frame(SYSEX_MARKER, READ_ADC, teeth_encode(<<7>>)),
                              Frame(SYSEX_MARKER, READ_ADC, BadTeeth) } }

SettingsBufs == { <<1, 2, 3>>, <<200, 0, 0, 0, 9>> }

SettingsReplies ==
    { Frame(SYSEX_MARKER, READ_SETTINGS, teeth_encode(b)) : b \in SettingsBufs }
    \cup { Frame(SYSEX_MARKER, READ_SETTINGS, BadTeeth) }

AckReplies(command) == { Frame(SYSEX_MARKER, command, <<>>) }

MonitorFrames ==
    { Frame(m, MONITOR, teeth_encode(b)) : m \in Markers, b \in {<<5, 6>>, <<250, 1, 2, 3, 4>>} }
    \cup { Frame(SYSEX_MARKER, MONITOR, BadTeeth), <<SYSEX_START>> }

(***************************************************************************)
(* The record formats (libgemini.gem_settings, gem_monitor_update): opaque *)
(* to this layer.  A record is carried as its packed bytes; whether unpack *)
(* accepts a buffer is the format's business, the choice `accepts`.       *)
(***************************************************************************)
GemSettings_unpack(buf, accepts) ==
    IF accepts THEN Ok(buf) ELSE Fail("unpack.error")
GemSettings_pack(settings) == settings.buf
GemMonitorUpdate_unpack(buf, accepts) ==
    IF accepts THEN Ok(buf) ELSE Fail("unpack.error")

(***************************************************************************)
(* The caller: one call at a time on one handle.  A call runs from "idle"  *)
(* to "done", where its frames and its outcome can be read; the caller     *)
(* then goes on to the next call.                                          *)
(***************************************************************************)
\* what the caller learnt: the value each query returned last
Observe(h, name, out) ==
    IF out.kind = "return" /\ name = "get_firmware_version" THEN [h EXCEPT !.version = out.val]
    ELSE IF out.kind = "return" /\ name = "get_serial_number" THEN [h EXCEPT !.serial = out.val]
    ELSE h

DoneCaught(name, argv, w, e, out) ==
    /\ pc' = "done"
    /\ op' = name
    /\ args' = argv
    /\ wire' = w
    /\ caught' = e
    /\ outcome' = out
    /\ hist' = Observe(hist, name, out)

Done(name, argv, w, out) == DoneCaught(name, argv, w, "", out)

\* a function without a return statement returns None unless sysex raised
Outcome(res) == IF res.ok THEN Returns(None) ELSE Raises(res.err)

\* Gemini.__init__
Init ==
    /\ version = None
    /\ serial_number = None
    /\ pc = "idle"
    /\ op = ""
    /\ args = <<>>
    /\ wire = <<>>
    /\ caught = ""
    /\ outcome = Pending
    /\ hist = [version |-> None, serial |-> None]

caller_resumes ==
    /\ pc = "done"
    /\ pc' = "idle"
    /\ op' = ""
    /\ args' = <<>>
    /\ wire' = <<>>
    /\ caught' = ""
    /\ outcome' = Pending
    /\ UNCHANGED <<version, serial_number, hist>>

\* a get_firmware_version that swallows a failed exchange
MutFirmwareVersionTextSwallowed(res) ==
    IF res.ok THEN DecodeAscii(Slice3To1(res.val)) ELSE Ok(<<>>)
\* Gemini.get_firmware_version: bytearray(resp[3:-1]).decode("ascii"), reached
\* only when sysex returned
FirmwareVersionText(res) ==
    IF res.ok THEN DecodeAscii(Slice3To1(res.val)) ELSE res

\* a get_firmware_version that drops the cached version when the query fails
Mut_get_firmware_version_clears ==
    /\ pc = "idle"
    /\ \E env \in Envs(HelloReplies) :
         LET r == sysex(HELLO, <<>>, TRUE, FALSE, FALSE, env)
             text == FirmwareVersionText(r.res)
         IN  /\ version' = IF text.ok THEN PyStr(text.val) ELSE None
             /\ Done("get_firmware_version", <<>>, r.wire,
                     IF text.ok THEN Returns(PyStr(text.val)) ELSE Raises(text.err))
    /\ UNCHANGED serial_number

\* Gemini.get_firmware_version: the field is assigned only after the decode
get_firmware_version ==
    /\ pc = "idle"
    /\ \E env \in Envs(HelloReplies) :
         LET r == sysex(HELLO, <<>>, TRUE, FALSE, FALSE, env)
             text == FirmwareVersionText(r.res)
         IN  /\ version' = IF text.ok THEN PyStr(text.val) ELSE version
             /\ Done("get_firmware_version", <<>>, r.wire,
                     IF text.ok THEN Returns(PyStr(text.val)) ELSE Raises(text.err))
    /\ UNCHANGED serial_number

\* Gemini.get_serial_number
get_serial_number ==
    /\ pc = "idle"
    /\ \E env \in Envs(SerialReplies) :
         LET r == sysex(GET_SERIAL_NUMBER, <<>>, TRUE, FALSE, TRUE, env)
         IN  /\ serial_number' = IF r.res.ok THEN PyStr(Hex(r.res.val)) ELSE serial_number
             /\ Done("get_serial_number", <<>>, r.wire,
                     IF r.res.ok THEN Returns(PyStr(Hex(r.res.val))) ELSE Raises(r.res.err))
    /\ UNCHANGED version

\* the operations that send a command and nothing else
Command(name, command, data) ==
    /\ pc = "idle"
    /\ \E env \in SendEnvs :
         LET r == sysex(command, data, FALSE, FALSE, FALSE, env)
         IN  Done(name, <<>>, r.wire, Outcome(r.res))
    /\ UNCHANGED <<version, serial_number>>

enter_calibration_mode == Command("enter_calibration_mode", ENTER_CALIBRATION, <<>>)
disable_adc_error_correction == Command("disable_adc_error_correction", DISABLE_ADC_CORR, <<>>)
enable_adc_error_correction == Command("enable_adc_error_correction", ENABLE_ADC_CORR, <<>>)
reset_settings == Command("reset_settings", RESET_SETTINGS, <<>>)
write_lut == Command("write_lut", WRITE_LUT, <<>>)
erase_lut == Command("erase_lut", ERASE_LUT, <<>>)
enable_monitor == Command("enable_monitor", MONITOR, <<1>>)
disable_monitor == Command("disable_monitor", MONITOR, <<0>>)
soft_reset == Command("soft_reset", SOFT_RESET, <<>>)
reset_into_bootloader == Command("reset_into_bootloader", RESET_INTO_BOOTLOADER, <<>>)

\* the operations that pack their arguments and send them escaped
SendPacked(name, argv, command, packed, response) ==
    /\ pc = "idle"
    /\ \E env \in (IF response THEN Envs(AckReplies(command)) ELSE SendEnvs) :
         LET r == IF packed.ok
                  THEN sysex(command, packed.val, response, TRUE, FALSE, env)
                  ELSE [wire |-> <<>>, res |-> packed]
         IN  Done(name, argv, r.wire, Outcome(r.res))
    /\ UNCHANGED <<version, serial_number>>

\* the channel arguments tried: the first and the last ADC channel, and the
\* first number that is none
ChannelArgs == {0, ADC_CV_B, ADC_CV_B + 1}
WordArgs == {0, 2048, 65535, 65536}

\* Gemini.set_dac
set_dac ==
    \E a \in WordArgs, b \in {0, 65535} :
        SendPacked("set_dac", <<a, b, 0, 1>>, SET_DAC,
                   StructPack(<<"H", "H", "H", "H">>, <<a, b, 0, 1>>), FALSE)

\* Gemini.set_frequency
SetFrequencyData(ch, val) == StructPack(<<"B", "I">>, <<ch, encode_fix16(val)>>)

set_frequency ==
    \E ch \in {0, 1}, val \in FloatArgs :
        SendPacked("set_frequency", <<ch, val>>, SET_FREQ, SetFrequencyData(ch, val), FALSE)

\* Gemini.set_adc_gain_error_int
GainErrorData(val) == StructPack(<<"H">>, <<val>>)

set_adc_gain_error_int ==
    \E val \in WordArgs \cup {-1} :
        SendPacked("set_adc_gain_error_int", <<val>>, WRITE_ADC_GAIN, GainErrorData(val), FALSE)

\* Gemini.set_adc_gain_error: int(val * 2048), then as set_adc_gain_error_int
\* rounding to nearest where the code truncates
MutGainErrorIntRounded(val) == PyIntOfFloat(AwayHalf(TimesGain(val), val.neg))
\* int(val * 2048)
GainErrorInt(val) == PyIntOfFloat(TimesGain(val))

set_adc_gain_error ==
    \E val \in FloatArgs :
        SendPacked("set_adc_gain_error", <<val>>, WRITE_ADC_GAIN,
                   GainErrorData(GainErrorInt(val)), FALSE)

\* Gemini.set_adc_offset_error
set_adc_offset_error ==
    \E val \in {x \in FloatArgs : x.exp >= 0} :
        SendPacked("set_adc_offset_error", <<val>>, WRITE_ADC_OFFSET,
                   StructPack(<<"h">>, <<PyIntOfFloat(val)>>), FALSE)

\* Gemini.save_settings
save_settings ==
    \E settings \in { [buf |-> b] : b \in SettingsBufs } :
        SendPacked("save_settings", <<settings>>, WRITE_SETTINGS,
                   Ok(GemSettings_pack(settings)), TRUE)

\* Gemini.write_lut_entry
write_lut_entry ==
    \E entry \in {0, 255, 256}, period \in {0, 70000}, castor \in {0, 65535} :
        SendPacked("write_lut_entry", <<entry, period, castor, 1>>, WRITE_LUT_ENTRY,
                   StructPack(<<"B", "I", "H", "H">>, <<entry, period, castor, 1>>), TRUE)

\* Gemini.read_settings
read_settings ==
    /\ pc = "idle"
    /\ \E env \in Envs(SettingsReplies), accepts \in BOOLEAN :
         LET r == sysex(READ_SETTINGS, <<>>, TRUE, FALSE, TRUE, env)
             settings == IF r.res.ok THEN GemSettings_unpack(r.res.val, accepts) ELSE r.res
         IN  Done("read_settings", <<>>, r.wire,
                  IF settings.ok THEN Returns(PyBytes(settings.val)) ELSE Raises(settings.err))
    /\ UNCHANGED <<version, serial_number>>

\* Gemini.read_adc: one request, one response, two bytes big-endian
ReadAdc(ch, env) ==
    LET r == sysex(READ_ADC, <<ch>>, TRUE, FALSE, TRUE, env)
        val == IF r.res.ok THEN UnpackH(r.res.val) ELSE r.res
    IN  [wire |-> r.wire, res |-> val]

read_adc ==
    /\ pc = "idle"
    /\ \E ch \in ChannelArgs, env \in GoodAdcEnvs \cup BadAdcEnvs :
         LET r == ReadAdc(ch, env)
         IN  Done("read_adc", <<ch>>, r.wire,
                  IF r.res.ok THEN Returns(PyInt(r.res.val[1])) ELSE Raises(r.res.err))
    /\ UNCHANGED <<version, serial_number>>

\* for _ in range(samples): _vals.append(self.read_adc(ch)); the first read
\* that raises ends the loop
RECURSIVE ReadLoop(_, _, _)
ReadLoop(ch, samples, envs) ==
    IF samples <= 0 THEN [wire |-> <<>>, res |-> Ok(<<>>)]
    ELSE LET first == ReadAdc(ch, Head(envs))
             rest == ReadLoop(ch, samples - 1, Tail(envs))
         IN  IF ~first.res.ok THEN first
             ELSE [wire |-> first.wire \o rest.wire,
                   res |-> IF rest.res.ok THEN Ok(first.res.val \o rest.res.val)
                           ELSE rest.res]

RECURSIVE Sum(_)
Sum(xs) == IF Len(xs) = 0 THEN 0 ELSE Head(xs) + Sum(Tail(xs))

RECURSIVE Gcd(_, _)
Gcd(a, b) == IF b = 0 THEN a ELSE Gcd(b, a % b)

\* statistics.mean of ints: the exact quotient, an int when it is one and
\* else the float of the fraction, carried as the fraction in lowest terms
\* a mean taken with integer division
MutMeanFloorDiv(xs) ==
    IF Len(xs) = 0 THEN Raises("StatisticsError")
    ELSE Returns(PyInt(Sum(xs) \div Len(xs)))
\* statistics.mean(_vals)
Mean(xs) ==
    IF Len(xs) = 0 THEN Raises("StatisticsError")
    ELSE IF Sum(xs) % Len(xs) = 0 THEN Returns(PyInt(Sum(xs) \div Len(xs)))
    ELSE LET g == Gcd(Sum(xs), Len(xs))
         IN  Returns([t |-> "float", v |-> <<Sum(xs) \div g, Len(xs) \div g>>])

\* what the bus does during `samples` reads: every read answered, or the
\* reads before the k-th answered and the k-th not
LoopEnvs(samples) ==
    [1 .. samples -> GoodAdcEnvs]
    \cup UNION { { Append(good, bad) : good \in [1 .. k - 1 -> GoodAdcEnvs], bad \in BadAdcEnvs }
                 : k \in 1 .. samples }

\* Gemini.read_adc_average
read_adc_average ==
    /\ pc = "idle"
    /\ \E ch \in ChannelArgs, samples \in 0 .. MaxSamples :
         \E envs \in LoopEnvs(samples) :
            LET r == ReadLoop(ch, samples, envs)
            IN  Done("read_adc_average", <<ch, samples>>, r.wire,
                     IF r.res.ok THEN Mean(r.res.val) ELSE Raises(r.res.err))
    /\ UNCHANGED <<version, serial_number>>

\* Gemini.monitor: the try block, then the except block
MonitorTry(rx, accepts) ==
    LET got == wait_for_message(rx)
        decoded == IF got.res.ok THEN teeth_decode(Slice3To1(got.res.val)) ELSE got.res
        unpacked == IF decoded.ok THEN GemMonitorUpdate_unpack(decoded.val, accepts) ELSE decoded
    IN  [wire |-> got.wire, res |-> unpacked]

\* except Exception as e: self.disable_monitor(); raise e
MonitorExcept(e, env) ==
    LET d == sysex(MONITOR, <<0>>, FALSE, FALSE, FALSE, env)
    IN  [wire |-> d.wire, res |-> IF d.res.ok THEN Fail(e) ELSE d.res]

monitor ==
    /\ pc = "idle"
    /\ \E rx \in RxEnvs(MonitorFrames), accepts \in BOOLEAN, env \in SendEnvs :
         LET try == MonitorTry(rx, accepts)
             handled == MonitorExcept(try.res.err, env)
         IN  IF try.res.ok
             THEN Done("monitor", <<>>, try.wire, Returns(PyBytes(try.res.val)))
             ELSE DoneCaught("monitor", <<>>, try.wire \o handled.wire, try.res.err,
                             Raises(handled.res.err))
    /\ UNCHANGED <<version, serial_number>>

\* a direct call of the module's helper _encode_fix16
call_encode_fix16 ==
    /\ pc = "idle"
    /\ \E val \in FloatArgs :
         Done("_encode_fix16", <<val>>, <<>>, Returns(PyInt(encode_fix16(val))))
    /\ UNCHANGED <<version, serial_number>>

Next ==
    \/ caller_resumes
    \/ get_firmware_version
    \/ get_serial_number
    \/ enter_calibration_mode
    \/ read_adc
    \/ read_adc_average
    \/ set_dac
    \/ set_frequency
    \/ set_adc_gain_error_int
    \/ set_adc_gain_error
    \/ set_adc_offset_error
    \/ disable_adc_error_correction
    \/ enable_adc_error_correction
    \/ reset_settings
    \/ read_settings
    \/ save_settings
    \/ write_lut_entry
    \/ write_lut
    \/ erase_lut
    \/ enable_monitor
    \/ disable_monitor
    \/ monitor
    \/ soft_reset
    \/ reset_into_bootloader
    \/ call_encode_fix16

Spec == Init /\ [][Next]_vars

(***************************************************************************)
(* The properties.                                                         *)
(***************************************************************************)
Finished(name) == pc = "done" /\ op = name

IsTx(e) == e.dir = "tx"
IsRx(e) == e.dir = "rx"
Sent(w) == SelectSeq(w, IsTx)
Received(w) == SelectSeq(w, IsRx)

DisableFrame == Frame(SYSEX_MARKER, MONITOR, <<0>>)

\* C1: whenever monitor()'s decode path fails, exactly one disable-monitor
\* frame is sent, it is the last thing on the wire, no other frame is sent,
\* and the call raises the failure it caught.
C1_MonitorFailureSendsOneDisableAndReraises ==
    (Finished("monitor") /\ caught # "") =>
        /\ Sent(wire) = <<Tx(DisableFrame)>>
        /\ wire[Len(wire)] = Tx(DisableFrame)
        /\ outcome = Raises(caught)

\* the integer floor(|x| + 0.5), from the exact sum
RECURSIVE WeighFrom(_, _, _)
WeighFrom(w, top, i) ==
    IF i > Len(w) \/ top - i + 1 < 0 THEN 0
    ELSE w[i] * TwoTo(top - i + 1) + WeighFrom(w, top, i + 1)

\* floor(v * 65536 + 0.5) for v >= 0, ceil(v * 65536 - 0.5) for v < 0
RoundHalfAway(val) ==
    LET x == Times65536(val)
        m == WeighFrom(ExactPlusHalf(x), SumTop(x), 1)
    IN  IF GeZero(val) THEN m ELSE 0 - m

\* C2: _encode_fix16(v) is v * 65536 rounded to the nearest integer, halves
\* away from zero: floor(v * 65536 + 0.5) for v >= 0, ceil(v * 65536 - 0.5)
\* for v < 0 (so within 1/2 of v * 65536; 32768 for 0.5, -32768 for -0.5).
C2_EncodeFix16RoundsHalfAwayFromZero ==
    Finished("_encode_fix16") => outcome = Returns(PyInt(RoundHalfAway(args[1])))

\* C3: set_frequency(ch, v) sends exactly one SET_FREQ frame whose unescaped
\* payload is ch followed by the fixed16 encoding of v as four bytes, signed
\* big-endian (two's complement), negative v included, and returns without
\* waiting for a response.
C3_SetFrequencySendsSignedFixed16 ==
    (Finished("set_frequency") /\ outcome.err # "SendError") =>
        /\ Len(wire) = 1
        /\ IsTx(wire[1])
        /\ SubSeq(wire[1].frame, 1, 3) = <<SYSEX_START, SYSEX_MARKER, SET_FREQ>>
        /\ teeth_decode(Slice3To1(wire[1].frame))
              = Ok(<<args[1]>> \o BigEndian(encode_fix16(args[2]), 4))
        /\ outcome = Returns(None)

\* trunc(v * 2048): the fractional part dropped
Trunc2048(val) ==
    LET x == TimesGain(val)
    IN  IF IsZero(x) THEN 0 ELSE IF x.neg THEN 0 - IntPart(x, x.exp) ELSE IntPart(x, x.exp)

\* what set_adc_gain_error_int(n) puts on the wire when the port takes it
GainErrorIntWire(n) ==
    sysex(WRITE_ADC_GAIN, GainErrorData(n).val, FALSE, TRUE, FALSE,
          [sent |-> TRUE, arrives |-> FALSE, frame |-> <<>>]).wire

\* C4: for 0 <= trunc(v * 2048) <= 65535, set_adc_gain_error(v) sends the
\* frame set_adc_gain_error_int(trunc(v * 2048)) sends: WRITE_ADC_GAIN with
\* the escaped two-byte big-endian number; 1.0 sends what 2048 sends.
C4_GainErrorSendsTruncatedInt ==
    (/\ Finished("set_adc_gain_error")
     /\ outcome.err # "SendError"
     /\ Trunc2048(args[1]) \in 0 .. 65535) =>
        /\ wire = GainErrorIntWire(Trunc2048(args[1]))
        /\ wire = <<Tx(Frame(SYSEX_MARKER, WRITE_ADC_GAIN,
                             teeth_encode(BigEndian(Trunc2048(args[1]), 2))))>>
        /\ outcome = Returns(None)
        /\ args[1] = One => wire = GainErrorIntWire(2048)

C4_Witness ==
    /\ Finished("set_adc_gain_error")
    /\ args[1] = One
    /\ wire = GainErrorIntWire(2048)
    /\ wire = <<Tx(<<SYSEX_START, SYSEX_MARKER, WRITE_ADC_GAIN, 32, 8, 0, 0, 0, SYSEX_END>>)>>

\* the reading a READ_ADC response frame carries
ReadingOf(frame) == FromBigEndian(teeth_decode(Slice3To1(frame)).val)

ReadingsOf(w) == [i \in 1 .. Len(Received(w)) |-> ReadingOf(Received(w)[i].frame)]

C6_WrongMarkerIsMalformedFrame ==
    (/\ pc = "done"
     /\ op \in {"monitor", "get_firmware_version"}
     /\ \E i \in 1 .. Len(wire) :
           /\ IsRx(wire[i])
           /\ Len(wire[i].frame) >= 4
           /\ wire[i].frame[2] # SYSEX_MARKER) =>
        outcome = Raises("MalformedFrameError")

ResponseExpected ==
    [ get_firmware_version |-> HELLO, get_serial_number |-> GET_SERIAL_NUMBER,
      read_adc |-> READ_ADC, read_settings |-> READ_SETTINGS,
      save_settings |-> WRITE_SETTINGS, write_lut_entry |-> WRITE_LUT_ENTRY ]

ResponseExpectedOps ==
    { "get_firmware_version", "get_serial_number", "read_adc", "read_settings",
      "save_settings", "write_lut_entry" }

\* the call sent its request and no frame came back before the timeout
TimedOut == /\ pc = "done"
            /\ op \in ResponseExpectedOps
            /\ Sent(wire) # <<>>
            /\ Received(wire) = <<>>

ReadFaults == {"SendError", "NoResponseError", "teeth.error", "struct.error", "StatisticsError"}

\* C8: read_adc and read_adc_average given a channel that is none of the
\* nine ADC channels 0..8 fail with UnsupportedChannelError (looked at where
\* nothing else went wrong with the call).
C8_UnknownChannelIsRejected ==
    (/\ pc = "done"
     /\ op \in {"read_adc", "read_adc_average"}
     /\ args[1] \notin 0 .. ADC_CV_B
     /\ outcome.err \notin ReadFaults) =>
        outcome = Raises("UnsupportedChannelError")

\* C9: when monitor()'s decode path fails and the disable-monitor command
\* then fails to send, the caller still gets the decode failure.
C9_DisableFailureKeepsOriginalError ==
    (Finished("monitor") /\ caught # "" /\ Sent(wire) = <<>>) =>
        outcome = Raises(caught)

\* C10: version is None until a get_firmware_version call returns and then
\* is what the last such call returned, and serial_number likewise for
\* get_serial_number: no other operation and no failed query changes either;
\* and each of the two queries puts a fresh request on the wire (or fails to
\* send it), whatever is cached.
C10_CacheHoldsLastAnswer ==
    /\ version = hist.version
    /\ serial_number = hist.serial
    /\ Finished("get_firmware_version") =>
          \/ wire = <<>> /\ outcome = Raises("SendError")
          \/ wire[1] = Tx(Frame(SYSEX_MARKER, HELLO, <<>>))
    /\ Finished("get_serial_number") =>
          \/ wire = <<>> /\ outcome = Raises("SendError")
          \/ wire[1] = Tx(Frame(SYSEX_MARKER, GET_SERIAL_NUMBER, <<>>))

\* a query that failed after one that succeeded: the field is still set
C10_Witness ==
    /\ Finished("get_firmware_version")
    /\ outcome.kind = "raise"
    /\ wire # <<>>
    /\ version = PyStr(<<98>>)
    /\ serial_number # None

====
